---- MODULE Spec2Model ----
(***************************************************************************)
(* Model of the SaaS business simulation: src/src/_user_growth.py (growth  *)
(* curves) and src/src/data.py (user table builder, activity sampler).     *)
(*                                                                         *)
(* Representation                                                          *)
(*  - a date is a day number; pd.date_range(s, e, closed='left') is the    *)
(*    sequence s, s+1, ..., e-1 (empty when e <= s);                       *)
(*  - a float is a fixed-point integer in units of 1/Scale;                *)
(*  - the process-wide generator np.random is a position in a stream of    *)
(*    period RngMod: np.random.seed(s) sets the position, every draw reads *)
(*    the value at the position and advances it by one;                    *)
(*  - uuid.uuid4() is not seeded: ids are taken from an entropy counter    *)
(*    whose start is arbitrary.                                            *)
(***************************************************************************)
EXTENDS Integers, Sequences, FiniteSets, TLC

VARIABLES
    args,           \* arguments of the public calls (one fixed set per run)
    rng,            \* np.random's global state (stream position)
    uuid_src,       \* entropy behind uuid.uuid4()
    pc,             \* position of the caller's script
    result1,        \* growth script: what the first call returned
    result2,        \* growth script: what the second call returned
    users_df,       \* pipeline: user table returned by get_user_dataset
    user_counts,    \* get_user_dataset: the total-user series it computed
    raised,         \* the call that raised, when a public call ended in an error
    active_user_counts, \* get_user_activity_dataset: DAU series
    stickiness_score,   \* _sample_user_ids: user_id -> score
    df,             \* _sample_user_ids: the activity rows being filled
    d               \* _sample_user_ids: date of the next loop iteration

vars == <<args, rng, uuid_src, pc, result1, result2, users_df, user_counts,
          raised,
          active_user_counts, stickiness_score, df, d>>

----------------------------------------------------------------------------
(* Bounds of the model *)

MaxDay == 3         \* dates of the range lie in 0..MaxDay
MaxSeed == 2        \* integer seeds are 0..MaxSeed
RngMod == 8         \* period of the modelled random stream

(* One unit of a float value: floats are held in units of 1/Scale *)
Scale == 10000

(* Python's None, for the optional seed *)
None == -1

----------------------------------------------------------------------------
(* Helpers: Python / numpy primitives *)

\* float -> int of ndarray.astype(int): truncation toward zero
AsTypeInt(n, q) == IF n >= 0 THEN n \div q ELSE -((-n) \div q)

\* ndarray.clip(lo, hi)
Clip(x, lo, hi) == IF x < lo THEN lo ELSE IF x > hi THEN hi ELSE x

\* Python truthiness of the seed argument in `if seed:`
Truthy(seed) == seed # None /\ seed # 0

\* pd.date_range(start_date, end_date, closed='left')
DateRange(start_date, end_date) ==
    [i \in 1..(IF end_date > start_date THEN end_date - start_date ELSE 0)
        |-> start_date + i - 1]

RECURSIVE SumSeq(_)
SumSeq(s) == IF s = <<>> THEN 0 ELSE Head(s) + SumSeq(Tail(s))

----------------------------------------------------------------------------
(* The process-wide generator np.random *)

\* standard-normal values of the stream, in standard deviations. The normal
\* distribution is unbounded: the stream holds typical values and one far in
\* the lower tail.
ZTable == <<0, 1, -1, 2, -7, 1, 0, -2>>

\* np.random.seed(seed)
SeedState(seed) == (3 * seed + 1) % RngMod

\* state after n draws
Advance(state, n) == (state + n) % RngMod

\* standard-normal value of the i-th draw from state (i = 0 is the next draw)
ZAt(state, i) == ZTable[(Advance(state, i) % Len(ZTable)) + 1]

\* uniform [0,1) value of the i-th draw from state, as a numerator over RngMod
UAt(state, i) == (5 * Advance(state, i) + 2) % RngMod

\* the `if seed: np.random.seed(seed)` preamble of every seeded function
MaybeSeed(state, seed) == IF Truthy(seed) THEN SeedState(seed) ELSE state

----------------------------------------------------------------------------
(* Growth curves: src/src/_user_growth.py *)

\* approx_yoy_growth_rate values of the model, and approx_yoy_growth_rate ** (1/365)
\* for each of them (0.5 -> 0.9981, 1 -> 1.0000, 3 -> 1.0030, 1.2**365 -> 1.2000)
DefaultRate == "3"
RateBelowOne(rate) == rate = "0.5"
DodGrowthRate(rate) ==
    CASE rate = "0.5" -> 9981
      [] rate = "1" -> 10000
      [] rate = "3" -> 10030
      [] rate = "1.2^365" -> 12000

StepSigma == 5          \* 0.0005, scale of the daily growth factor
ActivePMean == 2500     \* 0.25
ActivePSigma == 300     \* 0.03
DauStepSigma == 20      \* 0.002
DefaultStartUsers == 10000

\* np.random.normal(loc, scale, size=n) drawn from state: the n values
NormalDraws(state, loc, scale, n) ==
    [i \in 1..n |-> loc + scale * ZAt(state, i - 1)]

\* ndarray.cumprod() of fixed-point factors
RECURSIVE CumProd(_, _)
CumProd(steps, i) ==
    IF i = 1 THEN steps[1]
    ELSE (CumProd(steps, i - 1) * steps[i]) \div Scale

\* ndarray.cumsum()
RECURSIVE CumSum(_, _)
CumSum(steps, i) == IF i = 0 THEN 0 ELSE CumSum(steps, i - 1) + steps[i]

\* get_user_counts_by_date: the returned series and the generator state left
get_user_counts_by_date(state, start_date, end_date, rate, start_users, seed) ==
    LET date_index == DateRange(start_date, end_date)
        n == Len(date_index)
        seeded == MaybeSeed(state, seed)
        dod_growth_rate == DodGrowthRate(rate)
        steps == NormalDraws(seeded, dod_growth_rate, StepSigma, n)
        n_users_draw == [i \in 1..n |->
                            AsTypeInt(start_users * CumProd(steps, i), Scale)]
    IN  [status |-> "returned", series |-> n_users_draw,
         rng |-> Advance(seeded, n)]

\* _get_active_user_p_by_date
get_active_user_p_by_date(state, start_date, end_date, seed) ==
    LET seeded == MaybeSeed(state, seed)
        date_index == DateRange(start_date, end_date)
        n == Len(date_index)
        ACTIVE_P == ActivePMean + ActivePSigma * ZAt(seeded, 0)
        steps == NormalDraws(Advance(seeded, 1), 0, DauStepSigma, n)
        DAU_p_draw == [i \in 1..n |->
                          Clip(ACTIVE_P + CumSum(steps, i), 0, Scale)]
    IN  [series |-> DAU_p_draw, rng |-> Advance(seeded, n + 1)]

\* get_active_user_counts_by_date
get_active_user_counts_by_date(state, start_date, end_date, rate, start_users, seed) ==
    LET active_user_p_by_date ==
            get_active_user_p_by_date(state, start_date, end_date, seed)
        users_by_date ==
            get_user_counts_by_date(active_user_p_by_date.rng, start_date,
                                    end_date, rate, start_users, seed)
        n == Len(users_by_date.series)
    IN  [status |-> "returned",
         series |-> [i \in 1..n |->
                        AsTypeInt(users_by_date.series[i]
                                  * active_user_p_by_date.series[i], Scale)],
         rng |-> users_by_date.rng]

----------------------------------------------------------------------------
(* User table builder: src/src/data.py, get_user_dataset *)

NaN == 0                \* a missing value (no id is 0)
LegacyDays == 365       \* pd.DateOffset(years=1)
AgeLoc == 27
AgeScale == 10
AgeMin == 16
SkewD == 8944           \* a / sqrt(1 + a^2) for a = 2
SkewC == 4472           \* sqrt(1 - SkewD^2)

\* _get_uuid_values(n): n fresh ids from the entropy source
get_uuid_values(src, n) == [i \in 1..(IF n > 0 THEN n ELSE 0) |-> src + i]

\* users_by_date - users_by_date.shift(1): NaN on the first date
MutShiftDiff(series, i) == series[i] - series[1]
ShiftDiff(series, i) == series[i] - series[i - 1]

get_new_user_counts_by_date(series) ==
    [i \in 1..Len(series) |->
        IF i = 1 THEN [nan |-> TRUE, value |-> 0]
        ELSE [nan |-> FALSE, value |-> ShiftDiff(series, i)]]

\* Series.sum(): NaN skipped
SumSkipNa(counts) ==
    SumSeq([i \in 1..Len(counts) |->
               IF counts[i].nan THEN 0 ELSE counts[i].value])

\* _get_age_dist_values: ((27 + 10 * skewnorm.rvs(a=2, size=n)).astype(int).clip(min=16))
get_age_dist_values(state, n) ==
    [i \in 1..n |->
        LET u0 == ZAt(state, i - 1)
            v == ZAt(state, n + i - 1)
            u1 == SkewD * u0 + SkewC * v
            x == IF u0 >= 0 THEN u1 ELSE -u1
            age == AsTypeInt(AgeLoc * Scale + AgeScale * x, Scale)
        IN  IF age < AgeMin THEN AgeMin ELSE age]

\* _get_user_country_values: np.random.choice([0, 1], p=[0.2, 0.8]) -> 'CA' / 'US'
get_user_country_values(state, n) ==
    [i \in 1..n |->
        IF 10 * UAt(state, i - 1) < 2 * RngMod THEN "CA" ELSE "US"]

\* legacy_user_date_range.sample(start_users, replace=True, random_state=None)
LegacyDates(state, start_date, start_users) ==
    [i \in 1..start_users |->
        (start_date - LegacyDays) + (UAt(state, i - 1) * LegacyDays) \div RngMod]

\* idx.repeat(counts): date i repeated counts[i] times, from date `from` on
RECURSIVE RepeatDates(_, _, _)
RepeatDates(dates, counts, from) ==
    IF from > Len(dates) THEN <<>>
    ELSE [j \in 1..counts[from] |-> dates[from]]
         \o RepeatDates(dates, counts, from + 1)

\* get_user_dataset: the table (rows in order, keyed by user_id), or the error
get_user_dataset(state, src, start_date, end_date, rate, start_users, seed) ==
    LET counts == get_user_counts_by_date(state, start_date, end_date, rate,
                                          start_users, seed)
        dates == DateRange(start_date, end_date)
        new_users_by_date == get_new_user_counts_by_date(counts.series)
        new_users_over_time == SumSkipNa(new_users_by_date)
        total_users == start_users + new_users_over_time
        ids == get_uuid_values(src, total_users)
        s_age == MaybeSeed(counts.rng, seed)
        age == get_age_dist_values(s_age, total_users)
        s_country == MaybeSeed(Advance(s_age, 2 * total_users), seed)
        country == get_user_country_values(s_country, total_users)
        s_legacy == Advance(s_country, total_users)
        legacy_dates == LegacyDates(s_legacy, start_date, start_users)
        diffs == [i \in 1..Len(dates) |-> new_users_by_date[i].value]
        failed(where) == [status |-> "error", raised |-> where, table |-> <<>>,
                          users_by_date |-> counts.series,
                          rng |-> counts.rng, uuid |-> src]
    IN  IF total_users < 0 THEN failed("skewnorm.rvs")
        ELSE IF Len(dates) = 0 THEN failed("pd.date_range")
        ELSE IF start_users < 0 THEN failed("Series.sample")
        ELSE IF \E i \in 2..Len(dates) : diffs[i] < 0 THEN failed("Series.repeat(new_users_by_date)")
        ELSE LET date_values == legacy_dates \o RepeatDates(dates, diffs, 2)
             IN  [status |-> "returned", raised |-> "",
                  table |-> [i \in 1..total_users |->
                                [user_id |-> ids[i],
                                 activation_date |-> date_values[i],
                                 country |-> country[i],
                                 age |-> age[i]]],
                  users_by_date |-> counts.series,
                  rng |-> Advance(s_legacy, start_users),
                  uuid |-> src + total_users]

----------------------------------------------------------------------------
(* Activity sampler: src/src/data.py, get_user_activity_dataset *)

RECURSIVE DigitSum(_)
DigitSum(n) == IF n < 10 THEN n ELSE (n % 10) + DigitSum(n \div 10)

\* stickiness_score: (sum of the id's digits) ** 2 // 100, per user_id
StickinessScore(users) ==
    [i \in 1..Len(users) |->
        [user_id |-> users[i].user_id,
         score |-> (DigitSum(users[i].user_id) * DigitSum(users[i].user_id))
                   \div 100]]

ScoreOf(scores, id) ==
    LET i == CHOOSE j \in 1..Len(scores) : scores[j].user_id = id
    IN  scores[i].score

\* np.unique(ids): the distinct ids, sorted
RECURSIVE SortedSeq(_)
SortedSeq(S) ==
    IF S = {} THEN <<>>
    ELSE LET m == CHOOSE x \in S : \A y \in S : x <= y
         IN  <<m>> \o SortedSeq(S \ {m})

\* users_df[users_df['activation_date'] <= d] with days_since_activation
FilteredUsers(users, date) ==
    LET keep == {i \in 1..Len(users) : users[i].activation_date <= date}
    IN  {[user_id |-> users[i].user_id,
          days_since_activation |-> date - users[i].activation_date] : i \in keep}

\* new_users: np.unique of the filtered users with days_since_activation == 0
MutNewUsers(users, date) ==
    SortedSeq({users[i].user_id : i \in {j \in 1..Len(users) :
                                     users[j].activation_date = date + 1}})
NewUsers(users, date) ==
    SortedSeq({u.user_id : u \in {f \in FilteredUsers(users, date) :
                                     f.days_since_activation = 0}})

\* active_users_left_to_add = dau - len(new_users)
MutClampedLeftToAdd(dau, new_users) ==
    IF dau - Len(new_users) < 0 THEN 0 ELSE dau - Len(new_users)
ActiveUsersLeftToAdd(dau, new_users) == dau - Len(new_users)

\* existing users: the filtered users with days_since_activation > 0
ExistingUsers(users, date) ==
    {f \in FilteredUsers(users, date) : f.days_since_activation > 0}

\* 0.9 ** days, in units of 1/Scale (by repeated squaring)
RECURSIVE Pow09(_)
Pow09(days) ==
    IF days = 0 THEN Scale
    ELSE IF days % 2 = 0
    THEN LET h == Pow09(days \div 2) IN (h * h) \div Scale
    ELSE (Pow09(days - 1) * 9) \div 10

\* stickiness_decay_factor = 0.8 * 0.9 ** days_since_activation + 0.1
StickinessDecayFactor(days) == (8 * Pow09(days)) \div 10 + Scale \div 10

\* 0.2 * stickiness + 0.8 * (40 * stickiness_decay_factor), before normalisation
StickinessWeight(score, days) ==
    (2 * score * Scale) \div 10 + (8 * 40 * StickinessDecayFactor(days)) \div 10

\* the replace argument of the np.random.choice call
MutReplace == TRUE
Replace == FALSE

\* cdf.searchsorted(u, side='right') over the candidates a (in order) with
\* weights w: the first index whose cumulative weight exceeds u * total
RECURSIVE CumWeight(_, _)
CumWeight(w, i) == IF i = 0 THEN 0 ELSE CumWeight(w, i - 1) + w[i]

SearchSorted(w, u) ==
    LET total == CumWeight(w, Len(w))
    IN  CHOOSE i \in 1..Len(w) :
            /\ CumWeight(w, i) * RngMod > u * total
            /\ \A j \in 1..(i - 1) : CumWeight(w, j) * RngMod <= u * total

\* the draws of np.random.choice(a, size=n, replace=..., p=w / sum(w)):
\* without replacement a candidate already found gets weight 0
RECURSIVE ChoiceDraws(_, _, _, _, _, _)
ChoiceDraws(state, a, w, n, replace, found) ==
    IF Len(found) = n THEN found
    ELSE LET left == [i \in 1..Len(a) |->
                         IF ~replace /\ \E k \in 1..Len(found) : found[k] = a[i]
                         THEN 0 ELSE w[i]]
             i == SearchSorted(left, UAt(state, Len(found)))
         IN  ChoiceDraws(state, a, w, n, replace, Append(found, a[i]))

\* np.random.choice(a, size=n, replace=replace, p=p): the sample, or the error.
\* It raises for an empty a (p then does not sum to 1), for a sample larger
\* than the population when replace=False, and for a negative size.
RandomChoice(state, a, w, n, replace) ==
    IF Len(a) = 0 THEN [ok |-> FALSE, sample |-> <<>>, rng |-> state]
    ELSE IF ~replace /\ n > Len(a) THEN [ok |-> FALSE, sample |-> <<>>, rng |-> state]
    ELSE IF n < 0 THEN [ok |-> FALSE, sample |-> <<>>, rng |-> state]
    ELSE [ok |-> TRUE,
          sample |-> ChoiceDraws(state, a, w, n, replace, <<>>),
          rng |-> Advance(state, n)]

\* _draw_existing_users_to_set_as_active
draw_existing_users_to_set_as_active(state, users, scores, date, n_draws) ==
    LET filtered_df == ExistingUsers(users, date)
        existing_users == SortedSeq({f.user_id : f \in filtered_df})
        days(id) == (CHOOSE f \in filtered_df : f.user_id = id).days_since_activation
        stickiness_weights ==
            [i \in 1..Len(existing_users) |->
                StickinessWeight(ScoreOf(scores, existing_users[i]),
                                 days(existing_users[i]))]
    IN  RandomChoice(state, existing_users, stickiness_weights, n_draws, Replace)

\* the session rows before sampling: one row per unit of DAU, user_id unset
ActivityRows(src, dates, counts) ==
    LET session_start_date == RepeatDates(dates, counts, 1)
        session_id == get_uuid_values(src, Len(session_start_date))
    IN  [i \in 1..Len(session_start_date) |->
            [session_id |-> session_id[i],
             user_id |-> NaN,
             session_start_date |-> session_start_date[i]]]

\* df.loc[df['session_start_date'] == d, 'user_id'] = values
RECURSIVE CountRows(_, _, _)
CountRows(rows, date, upto) ==
    IF upto = 0 THEN 0
    ELSE CountRows(rows, date, upto - 1)
         + (IF rows[upto].session_start_date = date THEN 1 ELSE 0)

SetUserIds(rows, date, values) ==
    [i \in 1..Len(rows) |->
        IF rows[i].session_start_date = date
        THEN [rows[i] EXCEPT !.user_id = values[CountRows(rows, date, i)]]
        ELSE rows[i]]

\* filtered_df is a copy: adding days_since_activation leaves users_df as it was
MutUsersWithoutCopy(users, date) ==
    [i \in 1..Len(users) |->
        [f \in DOMAIN users[i] \cup {"days_since_activation"} |->
            IF f = "days_since_activation"
            THEN date - users[i].activation_date
            ELSE users[i][f]]]
UsersAfterIteration(users, date) == users

----------------------------------------------------------------------------
(* Script 1: a caller that calls one growth generator twice with the same  *)
(* arguments, the process drawing other random numbers in between.         *)

Seeds == {None} \cup (0..MaxSeed)
NoResult == [status |-> "none", series |-> <<>>]

GrowthArgs ==
    [fn : {"get_user_counts_by_date", "get_active_user_counts_by_date"},
     start_date : 0..1,
     end_date : 0..MaxDay,
     rate : {"0.5", "1", "3"},
     start_users : {-1, 0, DefaultStartUsers},
     seed : Seeds]

InitGrowth ==
    /\ args \in GrowthArgs
    /\ rng \in 0..(RngMod - 1)
    /\ uuid_src = 0
    /\ pc = "call1"
    /\ result1 = NoResult
    /\ result2 = NoResult
    /\ users_df = <<>>
    /\ user_counts = <<>>
    /\ raised = ""
    /\ active_user_counts = <<>>
    /\ stickiness_score = <<>>
    /\ df = <<>>
    /\ d = 0

CallGenerator(state) ==
    IF args.fn = "get_user_counts_by_date"
    THEN get_user_counts_by_date(state, args.start_date, args.end_date,
                                 args.rate, args.start_users, args.seed)
    ELSE get_active_user_counts_by_date(state, args.start_date, args.end_date,
                                        args.rate, args.start_users, args.seed)

\* something else in the process draws a random number
OtherDraw ==
    /\ pc \in {"call1", "call2"}
    /\ rng' = Advance(rng, 1)
    /\ UNCHANGED <<args, uuid_src, pc, result1, result2, users_df,
                   user_counts, raised, active_user_counts, stickiness_score, df, d>>

FirstCall ==
    /\ pc = "call1"
    /\ LET r == CallGenerator(rng)
       IN  /\ result1' = [status |-> r.status, series |-> r.series]
           /\ rng' = r.rng
    /\ pc' = "call2"
    /\ UNCHANGED <<args, uuid_src, result2, users_df,
                   user_counts, raised, active_user_counts, stickiness_score, df, d>>

SecondCall ==
    /\ pc = "call2"
    /\ LET r == CallGenerator(rng)
       IN  /\ result2' = [status |-> r.status, series |-> r.series]
           /\ rng' = r.rng
    /\ pc' = "done"
    /\ UNCHANGED <<args, uuid_src, result1, users_df,
                   user_counts, raised, active_user_counts, stickiness_score, df, d>>

NextGrowth == OtherDraw \/ FirstCall \/ SecondCall

SpecGrowth == InitGrowth /\ [][NextGrowth]_vars

----------------------------------------------------------------------------
(* Script 2: a caller that builds the user table with get_user_dataset and *)
(* passes it to get_user_activity_dataset. The activity call is meant to   *)
(* get the arguments the table was built with; nothing enforces it, and    *)
(* activity_start_users is what the caller passes as start_users there.    *)

MismatchedStartUsers == 20

PipelineArgs ==
    {a \in [start_date : {0},
            end_date : 1..MaxDay,
            rate : {"3", "1.2^365"},
            start_users : {0, 2, 5},
            activity_start_users : {0, 2, 5, MismatchedStartUsers},
            seed : Seeds] :
        a.activity_start_users \in {a.start_users, MismatchedStartUsers}}

Init ==
    /\ args \in PipelineArgs
    /\ rng \in 0..(RngMod - 1)
    /\ uuid_src \in {0, 86}
    /\ pc = "users"
    /\ result1 = NoResult
    /\ result2 = NoResult
    /\ users_df = <<>>
    /\ user_counts = <<>>
    /\ raised = ""
    /\ active_user_counts = <<>>
    /\ stickiness_score = <<>>
    /\ df = <<>>
    /\ d = 0

\* users_df = get_user_dataset(start_date, end_date, ...)
GetUserDataset ==
    /\ pc = "users"
    /\ LET r == get_user_dataset(rng, uuid_src, args.start_date, args.end_date,
                                 args.rate, args.start_users, args.seed)
       IN  /\ users_df' = r.table
           /\ user_counts' = r.users_by_date
           /\ rng' = r.rng
           /\ uuid_src' = r.uuid
           /\ raised' = r.raised
           /\ pc' = IF r.status = "returned" THEN "activity" ELSE "error"
    /\ UNCHANGED <<args, result1, result2, active_user_counts,
                   stickiness_score, df, d>>

\* get_user_activity_dataset up to the date loop of _sample_user_ids
GetUserActivityDataset ==
    /\ pc = "activity"
    /\ LET counts == get_active_user_counts_by_date(
                         rng, args.start_date, args.end_date, args.rate,
                         args.activity_start_users, args.seed)
           dates == DateRange(args.start_date, args.end_date)
       IN  /\ active_user_counts' = counts.series
           /\ rng' = counts.rng
           /\ IF \E i \in 1..Len(dates) : counts.series[i] < 0
              THEN /\ pc' = "error"
                   /\ raised' = "Series.repeat(active_user_counts)"
                   /\ UNCHANGED <<df, uuid_src, stickiness_score, d>>
              ELSE /\ df' = ActivityRows(uuid_src, dates, counts.series)
                   /\ uuid_src' = uuid_src + SumSeq(counts.series)
                   /\ stickiness_score' = StickinessScore(users_df)
                   /\ d' = args.start_date
                   /\ pc' = "loop"
                   /\ UNCHANGED raised
    /\ UNCHANGED <<args, result1, result2, users_df, user_counts>>

\* one iteration of `for d in pd.date_range(start_date, end_date, closed='left')`
SampleUserIds ==
    /\ pc = "loop"
    /\ d < args.end_date
    /\ LET dau == active_user_counts[d - args.start_date + 1]
           new_users == NewUsers(users_df, d)
           active_users_left_to_add == ActiveUsersLeftToAdd(dau, new_users)
           drawn == draw_existing_users_to_set_as_active(
                        rng, users_df, stickiness_score, d,
                        active_users_left_to_add)
           list_active_users_to_add == new_users \o drawn.sample
       IN  /\ users_df' = UsersAfterIteration(users_df, d)
           /\ IF ~drawn.ok
              THEN /\ pc' = "error"
                   /\ raised' = "np.random.choice"
                   /\ UNCHANGED <<rng, df, d>>
              ELSE IF Len(list_active_users_to_add) # CountRows(df, d, Len(df))
              THEN /\ pc' = "error"
                   /\ raised' = "df.loc"
                   /\ rng' = drawn.rng
                   /\ UNCHANGED <<df, d>>
              ELSE /\ df' = SetUserIds(df, d, list_active_users_to_add)
                   /\ rng' = drawn.rng
                   /\ d' = d + 1
                   /\ UNCHANGED <<pc, raised>>
    /\ UNCHANGED <<args, uuid_src, result1, result2, user_counts,
                   active_user_counts, stickiness_score>>

\* the loop is over: merge, drop the joined column, set_index, return
ReturnActivityDataset ==
    /\ pc = "loop"
    /\ d >= args.end_date
    /\ pc' = "done"
    /\ UNCHANGED <<args, rng, uuid_src, result1, result2, users_df,
                   user_counts, raised, active_user_counts,
                   stickiness_score, df, d>>

Next ==
    \/ GetUserDataset
    \/ GetUserActivityDataset
    \/ SampleUserIds
    \/ ReturnActivityDataset

Spec == Init /\ [][Next]_vars

----------------------------------------------------------------------------
(* Properties of the growth generators (checked under SpecGrowth)          *)

InvalidParameters ==
    \/ args.end_date <= args.start_date
    \/ RateBelowOne(args.rate)
    \/ args.start_users < 0

FirstCallDone == pc \in {"call2", "done"}

\* C4: a public generator called with end_date <= start_date, a growth rate
\* below 1 or a negative start_users ends in an error and returns no series.
C4_InvalidParametersRejected ==
    (FirstCallDone /\ InvalidParameters) => result1.status = "error"

\* C5: with a seed supplied (not None) and the other arguments fixed, two calls
\* of a growth generator return identical series, whatever was drawn before.
C5_SameSeedSameSeries ==
    (pc = "done" /\ args.seed # None /\ ~InvalidParameters)
        => result1.series = result2.series

\* C6: for the default growth rate and start_users the series returned by
\* get_user_counts_by_date never decreases from one date to the next.
C6_TotalUsersNonDecreasing ==
    (/\ FirstCallDone
     /\ args.fn = "get_user_counts_by_date"
     /\ args.rate = DefaultRate
     /\ args.start_users = DefaultStartUsers)
        => \A i \in 1..(Len(result1.series) - 1) :
               result1.series[i + 1] >= result1.series[i]

\* C8: the first value of the series returned by get_user_counts_by_date is
\* the start_users argument.
C8_SeriesStartsAtStartUsers ==
    (/\ FirstCallDone
     /\ args.fn = "get_user_counts_by_date"
     /\ ~InvalidParameters)
        => result1.series[1] = args.start_users

----------------------------------------------------------------------------
(* Properties of the user table and the activity table (checked under Spec) *)

Dates == DateRange(args.start_date, args.end_date)
DatesOfRange == {Dates[i] : i \in 1..Len(Dates)}
DauOf(date) == active_user_counts[date - args.start_date + 1]
RowsOn(date) == {i \in 1..Len(df) : df[i].session_start_date = date}
UserIdsOn(date) == {df[i].user_id : i \in RowsOn(date)}
ActivationDateOf(id) ==
    LET i == CHOOSE j \in 1..Len(users_df) : users_df[j].user_id = id
    IN  users_df[i].activation_date
NewTodayCount(date) ==
    Cardinality({i \in 1..Len(users_df) : users_df[i].activation_date = date})
ExistingCount(date) ==
    Cardinality({i \in 1..Len(users_df) : users_df[i].activation_date < date})
RemainingSlots(date) == DauOf(date) - NewTodayCount(date)

ActivityErrors ==
    {"Series.repeat(active_user_counts)", "np.random.choice", "df.loc"}
UserTableReturned ==
    \/ pc \in {"activity", "loop", "done"}
    \/ pc = "error" /\ raised \in ActivityErrors
InIteration == pc = "loop" /\ d < args.end_date
IterationCompleted == pc = "loop" /\ pc' = "loop" /\ d' = d + 1

\* C1: when get_user_activity_dataset returns, the rows of every date of the
\* range carry exactly DAU(date) user ids, all set and pairwise distinct.
C1_DistinctActiveUsersPerDate ==
    pc = "done" =>
        \A date \in DatesOfRange :
            /\ Cardinality(RowsOn(date)) = DauOf(date)
            /\ Cardinality(UserIdsOn(date)) = DauOf(date)
            /\ NaN \notin UserIdsOn(date)

C1_Witness ==
    /\ pc = "done"
    /\ \E date \in DatesOfRange :
          /\ NewTodayCount(date) >= 1
          /\ RemainingSlots(date) >= 2

\* C2: every session row that has a user refers to a user whose activation
\* date is not after the row's session_start_date.
C2_ActiveOnlyAfterActivation ==
    \A i \in 1..Len(df) :
        df[i].user_id # NaN =>
            ActivationDateOf(df[i].user_id) <= df[i].session_start_date

C2_Witness ==
    /\ pc = "done"
    /\ DauOf(args.start_date) >= 1
    /\ \E i \in 1..Len(users_df) :
          users_df[i].activation_date > args.start_date

\* C3: an iteration whose remaining slots exceed the number of existing users
\* ends the call in an error and fills no row; a returned table has no such date.
C3_InsufficientPopulationRaises ==
    /\ [][(InIteration /\ RemainingSlots(d) > ExistingCount(d))
            => (pc' = "error" /\ df' = df)]_vars
    /\ [](pc = "done" =>
            \A date \in DatesOfRange : RemainingSlots(date) <= ExistingCount(date))

C3_Witness ==
    /\ pc = "error"
    /\ raised = "np.random.choice"
    /\ ExistingCount(d) >= 1
    /\ RemainingSlots(d) > ExistingCount(d)

\* C7: in the table get_user_dataset returns, the users activating on each
\* date after the first number TotalUsers(D) - TotalUsers(D-1); the first
\* start_users rows are the legacy users, and the rows after them activate
\* inside the range in chronological order.
C7_ActivationsMatchDailyDelta ==
    UserTableReturned =>
        /\ \A i \in 2..Len(Dates) :
               NewTodayCount(Dates[i]) = user_counts[i] - user_counts[i - 1]
        /\ \A j \in 1..Len(users_df) :
               IF j <= args.start_users
               THEN users_df[j].activation_date < args.start_date
               ELSE /\ users_df[j].activation_date \in DatesOfRange
                    /\ j < Len(users_df) =>
                         users_df[j].activation_date
                             <= users_df[j + 1].activation_date

C7_Witness ==
    /\ UserTableReturned
    /\ args.start_users >= 1
    /\ \E i \in 2..Len(Dates) : \E k \in (i + 1)..Len(Dates) :
          /\ user_counts[i] - user_counts[i - 1] >= 1
          /\ user_counts[k] - user_counts[k - 1] >= 1

\* C9 (as claimed): when the new-today users outnumber DAU(date), the slots
\* are clamped to 0 and the loop goes on: the call never ends in an error
\* on such a date.
C9_ClampedToZero ==
    ~(pc = "error" /\ d \in DatesOfRange /\ NewTodayCount(d) > DauOf(d))

\* C9 (amended): when the new-today users outnumber DAU(date), the negative
\* slot count reaches np.random.choice unclamped, which raises: the call
\* ends in that error and the iteration fills no row.
C9_NegativeSlotsRaise ==
    [][(InIteration /\ NewTodayCount(d) > DauOf(d))
         => (pc' = "error" /\ raised' = "np.random.choice" /\ df' = df)]_vars

C9_Witness ==
    /\ pc = "error"
    /\ raised = "np.random.choice"
    /\ ExistingCount(d) >= 1
    /\ NewTodayCount(d) > DauOf(d)

\* C10 (as claimed): an iteration of the date loop writes nothing but the
\* session rows (and the loop's own date).
C10_IterationWritesOnlyRows ==
    [][IterationCompleted
         => UNCHANGED <<args, users_df, user_counts, active_user_counts,
                        stickiness_score, uuid_src, rng>>]_vars

\* C10 (amended): an iteration of the date loop writes the session rows and
\* the process-wide random generator, which its draw advances by one step
\* per user drawn and which the next iteration's draw reads; the user table,
\* the stickiness scores and the DAU series are left as they were.
C10_IterationWritesRowsAndGenerator ==
    [][IterationCompleted
         => /\ UNCHANGED <<args, users_df, user_counts, active_user_counts,
                           stickiness_score, uuid_src>>
            /\ rng' = Advance(rng, RemainingSlots(d))]_vars

C10_Witness ==
    /\ pc = "loop"
    /\ d > args.start_date
    /\ d < args.end_date
    /\ RemainingSlots(d - 1) >= 1
    /\ RemainingSlots(d) >= 1

====
